---- MODULE Spec2Model ----
(***************************************************************************)
(* Air Quality Activity Planner (src/app.py): a Streamlit script.  Every   *)
(* user interaction re-executes the script top to bottom; the model has    *)
(* one action per kind of script run, and operators for the functions the  *)
(* script defines (get_aqi_data, recommend_times, save_plan,               *)
(* load_plan_by_id).                                                       *)
(*                                                                         *)
(* Text is modelled as a sequence of one-character strings so that         *)
(* lower(), strip(), the substring test and ", ".join are computed.        *)
(***************************************************************************)
EXTENDS Integers, Sequences, FiniteSets, TLC

VARIABLES
    secrets,      \* TRUE iff st.secrets holds OPENWEATHER_API_KEY
    cache,        \* st.cache_data store of get_aqi_data: key -> entry
    now,          \* seconds on the cache's clock
    plans,        \* rows of table plans in air_quality_plans.db
    city,         \* value of the "City" text input
    country,      \* value of the "Country (optional)" text input
    activities_input, \* lines of the "Activities" text area
    page,         \* what the last script run did and rendered
    history,      \* per key, the last run of get_aqi_data's body that returned
    rec_df,       \* recommend_times: argument df
    rec_acts,     \* recommend_times: argument activities_list
    rec_out,      \* recommend_times: outcome
    st_last       \* plan store: the last store operation and its outcome

vars == <<secrets, cache, now, plans, city, country, activities_input, page, history,
          rec_df, rec_acts, rec_out, st_last>>

appVars == <<secrets, cache, now, city, country, activities_input, page, history>>
recVars == <<rec_df, rec_acts, rec_out>>

(***************************************************************************)
(* Bounds of the model.                                                    *)
(***************************************************************************)
MaxPoints == 2
MaxActs == 2
MaxPlans == 2
MaxTicks == 3
TickSeconds == 900

(***************************************************************************)
(* Text helpers: str.lower, str.strip, str.lstrip("0"), "in", str.join.    *)
(***************************************************************************)
UpperToLower ==
    ("A" :> "a") @@ ("B" :> "b") @@ ("C" :> "c") @@ ("D" :> "d") @@ ("E" :> "e") @@
    ("F" :> "f") @@ ("G" :> "g") @@ ("H" :> "h") @@ ("I" :> "i") @@ ("J" :> "j") @@
    ("K" :> "k") @@ ("L" :> "l") @@ ("M" :> "m") @@ ("N" :> "n") @@ ("O" :> "o") @@
    ("P" :> "p") @@ ("Q" :> "q") @@ ("R" :> "r") @@ ("S" :> "s") @@ ("T" :> "t") @@
    ("U" :> "u") @@ ("V" :> "v") @@ ("W" :> "w") @@ ("X" :> "x") @@ ("Y" :> "y") @@
    ("Z" :> "z")

Uppers == DOMAIN UpperToLower

Lower(s) == [i \in 1..Len(s) |-> IF s[i] \in Uppers THEN UpperToLower[s[i]] ELSE s[i]]

Whitespace == {" ", "\t", "\n", "\r"}

RECURSIVE LStrip(_, _)
LStrip(s, chars) ==
    IF s # <<>> /\ Head(s) \in chars THEN LStrip(Tail(s), chars) ELSE s

RECURSIVE RStrip(_, _)
RStrip(s, chars) ==
    IF s # <<>> /\ s[Len(s)] \in chars THEN RStrip(SubSeq(s, 1, Len(s) - 1), chars) ELSE s

Strip(s) == RStrip(LStrip(s, Whitespace), Whitespace)

\* needle in hay
Contains(hay, needle) ==
    \E i \in 0..(Len(hay) - Len(needle)) :
        \A j \in 1..Len(needle) : hay[i + j] = needle[j]

RECURSIVE Join(_, _)
Join(sep, parts) ==
    IF parts = <<>> THEN <<>>
    ELSE IF Len(parts) = 1 THEN parts[1]
    ELSE parts[1] \o sep \o Join(sep, Tail(parts))

CommaSpace == <<",", " ">>

(***************************************************************************)
(* pandas.DataFrame(rows): a list of row dicts.  The columns are the keys  *)
(* of the dicts, so a DataFrame built from no rows has no columns.         *)
(***************************************************************************)
ForecastColumns == {"time", "aqi", "level"}

DataFrame(rows) ==
    [none |-> FALSE,
     columns |-> IF rows = <<>> THEN {} ELSE ForecastColumns,
     rows |-> rows]

NoneDF == [none |-> TRUE, columns |-> {}, rows |-> <<>>]

(***************************************************************************)
(* get_aqi_data (src/app.py 114-143).                                      *)
(*                                                                         *)
(* The upstream service is the environment.  A geocoding response is       *)
(*   [kind |-> "raise"]            requests.get or .json() raised          *)
(*   [kind |-> "list", items]      a JSON array of results                 *)
(*   [kind |-> "object", items]    a JSON object (an error payload)        *)
(* and a result is [has_coords, lat, lon].  A forecast response is         *)
(*   [kind |-> "raise"], [kind |-> "nolist"] (JSON without "list"), or     *)
(*   [kind |-> "list", list] with entries [valid, dt, aqi]; valid = FALSE  *)
(* is an entry without "dt" or "main"/"aqi", or with a non-integer aqi.    *)
(***************************************************************************)
TTL == 1800
MaxRows == 24

None == "None"
CityNotFoundMsg == "City not found. Try adding a country code."
GeocodeFailedMsg == "Failed to geocode city."
FetchFailedMsg == "Failed to fetch air quality data."

Levels == <<"Good", "Fair", "Moderate", "Poor", "Very Poor">>

\* Python's list[i]: i counts from the end when negative; IndexError outside.
PyIndexOk(list, i) == -Len(list) <= i /\ i < Len(list)

PyIndex(list, i) == IF i >= 0 THEN list[i + 1] ELSE list[Len(list) + i + 1]

\* level = [...][aqi - 1]
Level(aqi) == PyIndex(Levels, aqi - 1)

LevelOk(aqi) == PyIndexOk(Levels, aqi - 1)

DigitChar == <<"0", "1", "2", "3", "4", "5", "6", "7", "8", "9">>

Pad2(n) == <<DigitChar[(n \div 10) + 1], DigitChar[(n % 10) + 1]>>

\* datetime.fromtimestamp(dt).hour, the process running in UTC
HourOf(dt) == (dt \div 3600) % 24

\* dt.strftime("%I %p").lstrip("0")
time_str(dt) ==
    LET h == HourOf(dt)
        i12 == IF h % 12 = 0 THEN 12 ELSE h % 12
        ampm == IF h < 12 THEN <<"A", "M">> ELSE <<"P", "M">>
    IN  LStrip(Pad2(i12) \o <<" ">> \o ampm, {"0"})

\* s[:n]
Take(s, n) == SubSeq(s, 1, IF Len(s) < n THEN Len(s) ELSE n)

ForecastRow(entry) ==
    [time |-> time_str(entry.dt), aqi |-> entry.aqi, level |-> Level(entry.aqi)]

\* Step 2 of get_aqi_data: the try block of lines 132-143.
ForecastStep(aqi_resp) ==
    IF aqi_resp.kind # "list"
    THEN [df |-> NoneDF, error |-> FetchFailedMsg]
    ELSE LET data == Take(aqi_resp.list, MaxRows)
         IN  IF \E i \in 1..Len(data) : ~data[i].valid \/ ~LevelOk(data[i].aqi)
             THEN [df |-> NoneDF, error |-> FetchFailedMsg]
             ELSE [df |-> DataFrame([i \in 1..Len(data) |-> ForecastRow(data[i])]),
                   error |-> None]

\* The test of line 123 written as "if geo_resp is None"
GeoFalsyIsNone(geo_resp) == FALSE

\* "if not geo_resp": an empty array or an empty object is falsy.
GeoFalsy(geo_resp) == geo_resp.items = <<>>

\* lat, lon = geo_resp[0]["lat"], geo_resp[0]["lon"] evaluates without raising
GeoHasCoords(geo_resp) ==
    geo_resp.kind = "list" /\ Len(geo_resp.items) >= 1 /\ geo_resp.items[1].has_coords

\* The body of get_aqi_data: what it returns or raises, and the network calls
\* it makes on the way.
get_aqi_data(has_key, geo_resp, aqi_resp) ==
    IF ~has_key
    THEN [raised |-> "KeyError", ret |-> [df |-> NoneDF, error |-> None],
          geo_calls |-> 0, aqi_calls |-> 0]
    ELSE IF geo_resp.kind = "raise"
    THEN [raised |-> None, ret |-> [df |-> NoneDF, error |-> GeocodeFailedMsg],
          geo_calls |-> 1, aqi_calls |-> 0]
    ELSE IF GeoFalsy(geo_resp)
    THEN [raised |-> None, ret |-> [df |-> NoneDF, error |-> CityNotFoundMsg],
          geo_calls |-> 1, aqi_calls |-> 0]
    ELSE IF ~GeoHasCoords(geo_resp)
    THEN [raised |-> None, ret |-> [df |-> NoneDF, error |-> GeocodeFailedMsg],
          geo_calls |-> 1, aqi_calls |-> 0]
    ELSE [raised |-> None, ret |-> ForecastStep(aqi_resp),
          geo_calls |-> 1, aqi_calls |-> 1]

(***************************************************************************)
(* @st.cache_data(ttl=1800): the return value of a call is stored under    *)
(* the call's arguments and served until ttl seconds have passed since it  *)
(* was stored; a call that raises stores nothing.  Storing an entry drops  *)
(* the entries that have expired.                                          *)
(***************************************************************************)
NoEntry == [present |-> FALSE, value |-> [df |-> NoneDF, error |-> None], expires |-> 0]

CacheKey(city_name, country_code) == <<city_name, country_code>>

\* An entry served without looking at its age (no ttl)
CacheLiveForever(c, key, t) == c[key].present

CacheLive(c, key, t) == c[key].present /\ t < c[key].expires

CachePut(c, key, value, t) ==
    [k \in DOMAIN c |->
        IF k = key THEN [present |-> TRUE, value |-> value, expires |-> t + TTL]
        ELSE IF c[k].present /\ ~(t < c[k].expires) THEN NoEntry
        ELSE c[k]]

\* Only forecasts stored, error results computed again
MemoizedForecastOnly(call) == call.raised = None /\ call.ret.error = None

\* What a call must have done for its outcome to be stored: returned.
Memoized(call) == call.raised = None

\* A call that finds no live entry runs the body, and stores what it returns.
CacheMiss(c, key, t, call) ==
    [raised |-> call.raised, ret |-> call.ret,
     geo_calls |-> call.geo_calls, aqi_calls |-> call.aqi_calls,
     executed |-> TRUE,
     cache |-> IF Memoized(call) THEN CachePut(c, key, call.ret, t) ELSE c]

\* A call of the decorated get_aqi_data at time t with cache c.
cached_get_aqi_data(c, t, has_key, city_name, country_code, geo_resp, aqi_resp) ==
    IF CacheLive(c, CacheKey(city_name, country_code), t)
    THEN [raised |-> None, ret |-> c[CacheKey(city_name, country_code)].value,
          geo_calls |-> 0, aqi_calls |-> 0, executed |-> FALSE, cache |-> c]
    ELSE CacheMiss(c, CacheKey(city_name, country_code), t,
                   get_aqi_data(has_key, geo_resp, aqi_resp))

(***************************************************************************)
(* recommend_times (src/app.py 146-156).  df["aqi"] raises KeyError on a   *)
(* DataFrame without that column.                                          *)
(***************************************************************************)
Keywords ==
    << <<"o", "u", "t", "d", "o", "o", "r">>, <<"r", "u", "n">>, <<"j", "o", "g">>,
       <<"c", "y", "c", "l", "e">>, <<"b", "i", "k", "e">>,
       <<"p", "i", "c", "n", "i", "c">>, <<"h", "i", "k", "e">>,
       <<"w", "a", "l", "k">>, <<"g", "a", "r", "d", "e", "n">>,
       <<"s", "p", "o", "r", "t">> >>

NoSafeTimeText ==
    <<"N", "o", " ", "s", "a", "f", "e", " ", "t", "i", "m", "e", " ",
      "t", "o", "d", "a", "y">>

AnyTimeText ==
    <<"A", "n", "y", " ", "t", "i", "m", "e", " ", "(", "i", "n", "d", "o", "o", "r",
      " ", "a", "c", "t", "i", "v", "i", "t", "y", ")">>

is_outdoor(activity) ==
    LET low == Lower(activity)
    IN  \E w \in 1..Len(Keywords) : Contains(low, Keywords[w])

\* df[df["aqi"] <= 2]["time"].tolist()
good_times(df) ==
    LET safe(row) == row.aqi <= 2
        kept == SelectSeq(df.rows, safe)
    IN  [i \in 1..Len(kept) |-> kept[i].time]

\* ", ".join(good_times) if good_times else "No safe time today"
JoinOrNone(good) == IF good # <<>> THEN Join(CommaSpace, good) ELSE NoSafeTimeText

best_time(activity, df) ==
    IF is_outdoor(activity) THEN JoinOrNone(good_times(df)) ELSE AnyTimeText

recommend_times(activities_list, df) ==
    IF "aqi" \notin df.columns /\ \E i \in 1..Len(activities_list) : is_outdoor(activities_list[i])
    THEN [raised |-> "KeyError", rows |-> <<>>]
    ELSE [raised |-> None,
          rows |-> [i \in 1..Len(activities_list) |->
                     [Activity |-> activities_list[i],
                      BestTime |-> best_time(activities_list[i], df)]]]

(***************************************************************************)
(* The reading of a "Best Time" cell that style_row makes (lines 202-206): *)
(* the two fixed texts, and otherwise the comma-separated time labels.     *)
(***************************************************************************)
RECURSIVE SplitFrom(_, _, _, _)
\* str.split(sep): i is the position read, start the first position of the piece
SplitFrom(s, sep, i, start) ==
    IF i > Len(s) - Len(sep) + 1 THEN <<SubSeq(s, start, Len(s))>>
    ELSE IF \A j \in 1..Len(sep) : s[i + j - 1] = sep[j]
    THEN <<SubSeq(s, start, i - 1)>> \o SplitFrom(s, sep, i + Len(sep), i + Len(sep))
    ELSE SplitFrom(s, sep, i + 1, start)

Split(s, sep) == SplitFrom(s, sep, 1, 1)

status_of(best) ==
    IF best = AnyTimeText THEN "NotApplicableIndoor"
    ELSE IF best = NoSafeTimeText THEN "NoSafeWindow"
    ELSE "HasSafeWindow"

\* times = [t.strip() for t in best_time.split(",")]
best_times_of(best) ==
    IF status_of(best) # "HasSafeWindow" THEN <<>>
    ELSE LET parts == Split(best, <<",">>)
         IN  [i \in 1..Len(parts) |-> Strip(parts[i])]

(***************************************************************************)
(* Sample forecasts and activity lists.                                    *)
(***************************************************************************)
SeqsUpTo(S, n) == UNION {[1..k -> S] : k \in 0..n}

Hour == 60 * 60

SampleActivities ==
    { <<"M", "o", "r", "n", "i", "n", "g", " ", "r", "u", "n">>,
      <<"I", "n", "d", "o", "o", "r", " ", "y", "o", "g", "a">>,
      <<"B", "I", "C", "Y", "C", "L", "E">>,
      <<"C", "y", "c", "l", "i", "n", "g">> }

SampleAqis == {0, 2, 3, 5}

SampleTimes == {9 * Hour, 21 * Hour}

SamplePoints ==
    {ForecastRow([valid |-> TRUE, dt |-> d, aqi |-> a]) : d \in SampleTimes, a \in SampleAqis}

SampleForecasts == {DataFrame(rows) : rows \in SeqsUpTo(SamplePoints, MaxPoints)}

SampleActivityLists == SeqsUpTo(SampleActivities, MaxActs) \ {<<>>}

(***************************************************************************)
(* recommend_times applied to a forecast and an activity list.             *)
(***************************************************************************)
RecIdle == [done |-> FALSE, raised |-> None, rows |-> <<>>]

RecInit ==
    /\ rec_df \in SampleForecasts
    /\ rec_acts \in SampleActivityLists
    /\ rec_out = RecIdle

RecFrozen ==
    /\ rec_df = DataFrame(<<>>)
    /\ rec_acts = <<>>
    /\ rec_out = RecIdle

Recommend ==
    /\ ~rec_out.done
    /\ \E out \in {recommend_times(rec_acts, rec_df)} :
           rec_out' = [done |-> TRUE, raised |-> out.raised, rows |-> out.rows]
    /\ UNCHANGED <<rec_df, rec_acts>>

(***************************************************************************)
(* The script (src/app.py 91-106 and 159-231).                             *)
(***************************************************************************)
\* activities = [line.strip() for line in activities_input.strip().split("\n")
\*               if line.strip()]
activities(text) ==
    LET lines == Split(Strip(text), <<"\n">>)
        stripped == [i \in 1..Len(lines) |-> Strip(lines[i])]
        nonblank(line) == line # <<>>
    IN  SelectSeq(stripped, nonblank)

\* The test of line 160 written as "if activities is None"
NoActivitiesIsNone(acts) == FALSE

\* "if not activities"
NoActivities(acts) == acts = <<>>

\* The test of line 165 written against the wrong member of the pair
FetchFailedOnFrame(error) == FALSE

\* "if error"
FetchFailed(error) == error # None

\* ax.bar(aqi_df["time"], aqi_df["aqi"], ...) raises KeyError on a DataFrame
\* without these columns (lines 173-175).
ChartRaises(df) == ~({"time", "aqi"} \subseteq df.columns)

(***************************************************************************)
(* Plan store (src/app.py 15-60).  A stored document is modelled by its    *)
(* JSON value: json.dumps of a list of str is an array of JSON strings;    *)
(* DataFrame.to_json() is, per column, an object from the row index        *)
(* written as a string to the cell.  pandas.read_json turns the index      *)
(* keys back into integers and infers each column's dtype: a column whose  *)
(* cells all read as numbers becomes numeric.                              *)
(***************************************************************************)
StrCell(text) == [type |-> "str", text |-> text, num |-> 0]

IntCell(n) == [type |-> "int", text |-> <<>>, num |-> n]

Digits == {"0", "1", "2", "3", "4", "5", "6", "7", "8", "9"}

DigitValue(c) == CHOOSE d \in 0..9 : DigitChar[d + 1] = c

IsNumericText(text) == text # <<>> /\ \A i \in 1..Len(text) : text[i] \in Digits

RECURSIVE ParseInt(_)
ParseInt(text) ==
    IF text = <<>> THEN 0
    ELSE 10 * ParseInt(SubSeq(text, 1, Len(text) - 1)) + DigitValue(text[Len(text)])

\* str(i) for a row index 0..9
IndexKey(i) == <<DigitChar[i + 1]>>

json_dumps(list) == [i \in 1..Len(list) |-> [json |-> "string", value |-> list[i]]]

json_loads(doc) == [i \in 1..Len(doc) |-> doc[i].value]

\* plan_df.to_json(): {"Activity": {"0": ..}, "Best Time": {"0": ..}}
to_json(plan_rows) ==
    [Activity |-> [i \in 1..Len(plan_rows) |->
                     [key |-> IndexKey(i - 1), json |-> "string", value |-> plan_rows[i].Activity]],
     BestTime |-> [i \in 1..Len(plan_rows) |->
                     [key |-> IndexKey(i - 1), json |-> "string", value |-> plan_rows[i].BestTime]]]

\* dtype inference of one column of pd.read_json
ConvertColumn(col) ==
    IF \A i \in 1..Len(col) : IsNumericText(col[i].value)
    THEN [i \in 1..Len(col) |-> IntCell(ParseInt(col[i].value))]
    ELSE [i \in 1..Len(col) |-> StrCell(col[i].value)]

\* pd.read_json(plan_json): rows in index order
read_json(doc) ==
    LET n == Len(doc.Activity)
        pos(col, idx) == CHOOSE i \in 1..n : ParseInt(col[i].key) = idx
        acts == ConvertColumn(doc.Activity)
        best == ConvertColumn(doc.BestTime)
    IN  [i \in 1..n |->
            [Activity |-> acts[pos(doc.Activity, i - 1)],
             BestTime |-> best[pos(doc.BestTime, i - 1)]]]

\* The DataFrame recommend_times returns, cell by cell
PlanCells(plan_rows) ==
    [i \in 1..Len(plan_rows) |->
        [Activity |-> StrCell(plan_rows[i].Activity),
         BestTime |-> StrCell(plan_rows[i].BestTime)]]

NoneId == [none |-> TRUE, id |-> 0]

\* INTEGER PRIMARY KEY AUTOINCREMENT; the script never deletes a row
NextId(rows) == Len(rows) + 1

\* save_plan: the table afterwards and the value returned (the function has
\* no return statement)
save_plan(rows, city_name, country_name, acts, plan_rows) ==
    [plans |-> Append(rows,
                  [id |-> NextId(rows), city |-> city_name, country |-> country_name,
                   activities |-> json_dumps(acts), plan_json |-> to_json(plan_rows)]),
     ret |-> NoneId]

NotFound == [found |-> FALSE, plan |-> <<>>, activities |-> <<>>, city |-> "", country |-> ""]

load_plan_by_id(rows, plan_id) ==
    IF \E i \in 1..Len(rows) : rows[i].id = plan_id
    THEN LET row == rows[CHOOSE i \in 1..Len(rows) : rows[i].id = plan_id]
         IN  [found |-> TRUE, plan |-> read_json(row.plan_json),
              activities |-> json_loads(row.activities),
              city |-> row.city, country |-> row.country]
    ELSE NotFound

(***************************************************************************)
(* One run of the script.  pressed names the button whose click triggered  *)
(* the run ("get", "save") or "none"; st.button returns True only for that *)
(* button, and only if the run reaches the line that creates it.           *)
(***************************************************************************)
EmptyInputMsg == "Please enter at least one activity."

NoRet == [df |-> NoneDF, error |-> None]

NoGeo == [kind |-> "none", items |-> <<>>]

NoPrior == [present |-> FALSE, at |-> 0, value |-> NoRet]

GetButton(pressed) == pressed = "get"

SaveButton(pressed) == pressed = "save"

BlankPage(pressed, t, city_v, country_v, acts, prior) ==
    [clicked |-> pressed, time |-> t, key |-> CacheKey(city_v, country_v),
     activities |-> acts, prior |-> prior,
     called |-> FALSE, executed |-> FALSE, fetch_raised |-> None,
     raised |-> None, shown |-> None,
     ret |-> NoRet, geo_calls |-> 0, aqi_calls |-> 0, geo |-> NoGeo,
     recommend_ran |-> FALSE, plan |-> <<>>, save_button |-> FALSE, rows_added |-> 0]

\* Lines 197-231, reached with a forecast that the chart accepted.
AfterRecommend(pressed, fetched, cache_after, rows, city_v, country_v, acts, rec) ==
    IF rec.raised # None
    THEN [page |-> [fetched EXCEPT !.recommend_ran = TRUE, !.raised = rec.raised],
          cache |-> cache_after, plans |-> rows]
    ELSE IF SaveButton(pressed)
    THEN [page |-> [fetched EXCEPT !.recommend_ran = TRUE, !.plan = rec.rows,
                                   !.save_button = TRUE, !.rows_added = 1],
          cache |-> cache_after,
          plans |-> save_plan(rows, city_v, country_v, acts, rec.rows).plans]
    ELSE [page |-> [fetched EXCEPT !.recommend_ran = TRUE, !.plan = rec.rows,
                                   !.save_button = TRUE],
          cache |-> cache_after, plans |-> rows]

\* Lines 164-231, with the outcome of the call of get_aqi_data.
AfterFetch(pressed, fetched, call, rows, city_v, country_v, acts) ==
    IF call.raised # None
    THEN [page |-> fetched, cache |-> call.cache, plans |-> rows]
    ELSE IF FetchFailed(call.ret.error)
    THEN [page |-> [fetched EXCEPT !.shown = call.ret.error],
          cache |-> call.cache, plans |-> rows]
    ELSE IF ChartRaises(call.ret.df)
    THEN [page |-> [fetched EXCEPT !.raised = "KeyError"],
          cache |-> call.cache, plans |-> rows]
    ELSE AfterRecommend(pressed, fetched, call.cache, rows, city_v, country_v, acts,
                        recommend_times(acts, call.ret.df))

Fetched(blank, call, geo_resp) ==
    [blank EXCEPT !.called = TRUE, !.executed = call.executed,
                  !.fetch_raised = call.raised, !.raised = call.raised, !.ret = call.ret,
                  !.geo_calls = call.geo_calls, !.aqi_calls = call.aqi_calls,
                  !.geo = IF call.geo_calls = 1 THEN geo_resp ELSE NoGeo]

CallAndRender(pressed, blank, call, geo_resp, rows, city_v, country_v, acts) ==
    AfterFetch(pressed, Fetched(blank, call, geo_resp), call, rows, city_v, country_v, acts)

\* Lines 159-231, with the activities of line 106.
MainLogic(pressed, c, t, has_key, rows, city_v, country_v, acts, blank, geo_resp, aqi_resp) ==
    IF ~GetButton(pressed)
    THEN [page |-> blank, cache |-> c, plans |-> rows]
    ELSE IF NoActivities(acts)
    THEN [page |-> [blank EXCEPT !.shown = EmptyInputMsg], cache |-> c, plans |-> rows]
    ELSE CallAndRender(pressed, blank,
                       cached_get_aqi_data(c, t, has_key, city_v, country_v, geo_resp, aqi_resp),
                       geo_resp, rows, city_v, country_v, acts)

WithActivities(pressed, c, t, has_key, rows, city_v, country_v, acts, prior, geo_resp, aqi_resp) ==
    MainLogic(pressed, c, t, has_key, rows, city_v, country_v, acts,
              BlankPage(pressed, t, city_v, country_v, acts, prior), geo_resp, aqi_resp)

\* The page the run leaves, the cache and the table after it.
ScriptRun(pressed, c, t, has_key, rows, city_v, country_v, text, prior, geo_resp, aqi_resp) ==
    WithActivities(pressed, c, t, has_key, rows, city_v, country_v, activities(text),
                   prior, geo_resp, aqi_resp)

(***************************************************************************)
(* What the user types and what the upstream service answers.              *)
(***************************************************************************)
Cities == {"London"}

Countries == {"UK", ""}

Keys == {CacheKey(ci, co) : ci \in Cities, co \in Countries}

TextAreas ==
    { <<>>,
      <<" ", "\n", " ">>,
      <<"M", "o", "r", "n", "i", "n", "g", " ", "r", "u", "n">>,
      <<" ", "I", "n", "d", "o", "o", "r", " ", "y", "o", "g", "a", " ", "\n", "\n", "B", "I", "C", "Y", "C", "L", "E", "\n">> }

Coords == [has_coords |-> TRUE, lat |-> 51, lon |-> 0]

NoCoords == [has_coords |-> FALSE, lat |-> 0, lon |-> 0]

GeoResponses ==
    { [kind |-> "raise", items |-> <<>>],
      [kind |-> "list", items |-> <<>>],
      [kind |-> "list", items |-> <<Coords>>],
      [kind |-> "list", items |-> <<NoCoords>>],
      [kind |-> "object", items |-> <<>>],
      [kind |-> "object", items |-> <<NoCoords, NoCoords>>] }

Entry(h, a) == [valid |-> TRUE, dt |-> h * Hour, aqi |-> a]

BadEntry == [valid |-> FALSE, dt |-> 0, aqi |-> 0]

\* One sample more than get_aqi_data keeps
LongList == [i \in 1..(MaxRows + 1) |-> Entry(i - 1, 1 + (i % 5))]

AqiResponses ==
    { [kind |-> "raise", list |-> <<>>],
      [kind |-> "nolist", list |-> <<>>],
      [kind |-> "list", list |-> <<>>],
      [kind |-> "list", list |-> <<Entry(9, 4), Entry(10, 5)>>],
      [kind |-> "list", list |-> LongList],
      [kind |-> "list", list |-> <<Entry(9, 1), Entry(10, 3), Entry(11, 2)>>],
      [kind |-> "list", list |-> <<Entry(9, 0)>>],
      [kind |-> "list", list |-> <<Entry(9, 2), Entry(10, 6)>>],
      [kind |-> "list", list |-> <<Entry(9, 1), BadEntry>>] }

\* The forecast service answers only a run that geocoded its city.
Upstream ==
    {[geo |-> g, aqi |-> [kind |-> "raise", list |-> <<>>]] :
        g \in {g \in GeoResponses : ~GeoHasCoords(g)}}
    \cup {[geo |-> g, aqi |-> a] : g \in {g \in GeoResponses : GeoHasCoords(g)},
                                   a \in AqiResponses}

(***************************************************************************)
(* The application: script runs, and time passing.                         *)
(***************************************************************************)
AppInit ==
    /\ secrets \in BOOLEAN
    /\ cache = [k \in Keys |-> NoEntry]
    /\ history = [k \in Keys |-> NoPrior]
    /\ now = 0
    /\ city = "London"
    /\ country = "UK"
    /\ activities_input = <<"M", "o", "r", "n", "i", "n", "g", " ", "r", "u", "n">>
    /\ page = BlankPage("none", 0, "London", "UK", activities(<<"M", "o", "r", "n", "i", "n", "g", " ", "r", "u", "n">>), NoPrior)

\* The user fills the form and clicks "Get Best Times"; texts and ups are what
\* the user may type and the upstream service may answer.
Request(texts, ups) ==
    \E ci \in Cities, co \in Countries, text \in texts, up \in ups :
        \E run \in {ScriptRun("get", cache, now, secrets, plans, ci, co, text,
                              history[CacheKey(ci, co)], up.geo, up.aqi)} :
            /\ city' = ci
            /\ country' = co
            /\ activities_input' = text
            /\ page' = run.page
            /\ cache' = run.cache
            /\ plans' = run.plans
            /\ history' = IF run.page.executed /\ run.page.fetch_raised = None
                          THEN [history EXCEPT ![CacheKey(ci, co)] =
                                  [present |-> TRUE, at |-> now, value |-> run.page.ret]]
                          ELSE history
            /\ UNCHANGED <<secrets, now>>

GetBestTimes == Request(TextAreas, Upstream)

\* The user clicks "Save This Plan to Database", which the page shows.
SaveClick ==
    /\ page.save_button
    /\ \E run \in {ScriptRun("save", cache, now, secrets, plans, city, country,
                                activities_input, history[CacheKey(city, country)],
                                NoGeo, [kind |-> "raise", list |-> <<>>])} :
           /\ page' = run.page
           /\ cache' = run.cache
           /\ plans' = run.plans
    /\ UNCHANGED <<secrets, now, city, country, activities_input, history>>

\* The user edits the form without clicking a button: the script reruns.
EditInputs ==
    \E ci \in Cities, co \in Countries, text \in TextAreas :
        \E run \in {ScriptRun("none", cache, now, secrets, plans, ci, co, text,
                              history[CacheKey(ci, co)],
                              NoGeo, [kind |-> "raise", list |-> <<>>])} :
            /\ <<ci, co, text>> # <<city, country, activities_input>>
            /\ city' = ci
            /\ country' = co
            /\ activities_input' = text
            /\ page' = run.page
            /\ cache' = run.cache
            /\ plans' = run.plans
            /\ UNCHANGED <<secrets, now, history>>

Tick ==
    /\ now < MaxTicks * TickSeconds
    /\ now' = now + TickSeconds
    /\ UNCHANGED <<secrets, cache, plans, city, country, activities_input, page, history>>

StoreIdle == [op |-> "none", ret |-> NoneId, id |-> 0, activities |-> <<>>,
              plan |-> <<>>, result |-> NotFound]

\* The request pipeline, under every kind of upstream answer, at one instant.
Init ==
    /\ AppInit
    /\ plans = <<>>
    /\ RecFrozen
    /\ st_last = StoreIdle

Next ==
    \/ GetBestTimes /\ UNCHANGED <<recVars, st_last>>
    \/ SaveClick /\ UNCHANGED <<recVars, st_last>>
    \/ EditInputs /\ UNCHANGED <<recVars, st_last>>

Spec == Init /\ [][Next]_vars

(***************************************************************************)
(* The cache of get_aqi_data over time: requests for two keys, answered    *)
(* with a forecast, "not found" or a failure, while the clock advances     *)
(* past the ttl.                                                           *)
(***************************************************************************)
TimedTexts == {<<"M", "o", "r", "n", "i", "n", "g", " ", "r", "u", "n">>}

TimedUpstream ==
    { [geo |-> [kind |-> "list", items |-> <<>>], aqi |-> [kind |-> "raise", list |-> <<>>]],
      [geo |-> [kind |-> "raise", items |-> <<>>], aqi |-> [kind |-> "raise", list |-> <<>>]],
      [geo |-> [kind |-> "list", items |-> <<Coords>>], aqi |-> [kind |-> "raise", list |-> <<>>]],
      [geo |-> [kind |-> "list", items |-> <<Coords>>],
       aqi |-> [kind |-> "list", list |-> <<Entry(9, 1), Entry(10, 3), Entry(11, 2)>>]],
      [geo |-> [kind |-> "list", items |-> <<Coords>>],
       aqi |-> [kind |-> "list", list |-> <<Entry(9, 4)>>]] }

TimedGetBestTimes == Request(TimedTexts, TimedUpstream)

NextCache ==
    \/ TimedGetBestTimes /\ UNCHANGED <<recVars, st_last>>
    \/ SaveClick /\ UNCHANGED <<recVars, st_last>>
    \/ Tick /\ UNCHANGED <<recVars, st_last>>

SpecCache == Init /\ [][NextCache]_vars

(***************************************************************************)
(* recommend_times as a function: one application to each sample input.    *)
(***************************************************************************)
InitRec ==
    /\ RecInit
    /\ AppInit
    /\ secrets
    /\ plans = <<>>
    /\ st_last = StoreIdle

NextRec == Recommend /\ UNCHANGED <<appVars, plans, st_last>>

SpecRec == InitRec /\ [][NextRec]_vars

(***************************************************************************)
(* The plan store: save_plan and load_plan_by_id applied to the table.     *)
(***************************************************************************)
StoreActivityLists ==
    { << <<"M", "o", "r", "n", "i", "n", "g", " ", "r", "u", "n">> >>,
      << <<"5">> >>,
      << <<"I", "n", "d", "o", "o", "r", " ", "y", "o", "g", "a">>, <<"1", "0">> >> }

StoreForecasts ==
    { DataFrame(<<ForecastRow(Entry(9, 1)), ForecastRow(Entry(10, 3)), ForecastRow(Entry(11, 2))>>),
      DataFrame(<<ForecastRow(Entry(9, 4))>>) }

\* save_plan(city, country, activities, plan) with a plan recommend_times made
Persist ==
    /\ Len(plans) < MaxPlans
    /\ \E ci \in Cities, co \in Countries, acts \in StoreActivityLists, df \in StoreForecasts :
        \E plan \in {recommend_times(acts, df).rows} :
          \E saved \in {save_plan(plans, ci, co, acts, plan)} :
            /\ plans' = saved.plans
            /\ st_last' = [op |-> "save", ret |-> saved.ret, id |-> NextId(plans),
                           activities |-> acts, plan |-> PlanCells(plan), result |-> NotFound]

\* load_plan_by_id(plan_id), as "Load Selected Plan" calls it
Retrieve ==
    \E plan_id \in 1..(MaxPlans + 1) :
        /\ st_last' = [op |-> "load", ret |-> NoneId, id |-> plan_id, activities |-> <<>>,
                       plan |-> <<>>, result |-> load_plan_by_id(plans, plan_id)]
        /\ UNCHANGED plans

InitStore ==
    /\ AppInit
    /\ secrets
    /\ RecFrozen
    /\ plans = <<>>
    /\ st_last = StoreIdle

NextStore ==
    \/ Persist /\ UNCHANGED <<appVars, recVars>>
    \/ Retrieve /\ UNCHANGED <<appVars, recVars>>

SpecStore == InitStore /\ [][NextStore]_vars

(***************************************************************************)
(* Properties.                                                             *)
(***************************************************************************)
RECURSIVE SafeLabels(_)
\* The time labels of the points with aqi <= 2, in the forecast's order
SafeLabels(rows) ==
    IF rows = <<>> THEN <<>>
    ELSE (IF Head(rows).aqi <= 2 THEN <<Head(rows).time>> ELSE <<>>) \o SafeLabels(Tail(rows))

RecommendationOk(activity, best, rows) ==
    IF is_outdoor(activity)
    THEN /\ best_times_of(best) = SafeLabels(rows)
         /\ status_of(best) = IF SafeLabels(rows) # <<>> THEN "HasSafeWindow" ELSE "NoSafeWindow"
    ELSE /\ best_times_of(best) = <<>>
         /\ status_of(best) = "NotApplicableIndoor"

\* C1: for every forecast of at most 24 points and every activity,
\* recommend_times yields, for an outdoor activity, exactly the time labels of
\* the points with aqi <= 2 in order, with status HasSafeWindow if there are
\* any and NoSafeWindow otherwise, and for any other activity no times and
\* status NotApplicableIndoor.
C1_RecommendContract ==
    rec_out.done =>
        /\ rec_out.raised = None
        /\ Len(rec_out.rows) = Len(rec_acts)
        /\ \A i \in 1..Len(rec_acts) :
              /\ rec_out.rows[i].Activity = rec_acts[i]
              /\ RecommendationOk(rec_acts[i], rec_out.rows[i].BestTime, rec_df.rows)

\* What recommend_times does keep of C1: the same contract on every forecast
\* that has at least one point.
RecommendContractOnPoints ==
    (rec_out.done /\ rec_df.rows # <<>>) =>
        /\ rec_out.raised = None
        /\ Len(rec_out.rows) = Len(rec_acts)
        /\ \A i \in 1..Len(rec_acts) :
              /\ rec_out.rows[i].Activity = rec_acts[i]
              /\ RecommendationOk(rec_acts[i], rec_out.rows[i].BestTime, rec_df.rows)

\* C2: with the API key missing, a "Get Best Times" request ends with an
\* error result shown to the user: no network call, no recommendation, and
\* no exception leaving the request.
C2_MissingCredentialShown ==
    (page.clicked = "get" /\ page.called /\ ~secrets) =>
        /\ page.geo_calls = 0
        /\ page.aqi_calls = 0
        /\ ~page.recommend_ran
        /\ page.raised = None
        /\ page.shown # None

LevelOfAqi == <<"Good", "Fair", "Moderate", "Poor", "Very Poor">>

\* C3: every point of a forecast that get_aqi_data returns has aqi in 1..5
\* and the level that the fixed mapping gives that aqi, whatever the upstream
\* service answered.
C3_ForecastPointsInRange ==
    (page.called /\ page.fetch_raised = None /\ page.ret.error = None) =>
        \A i \in 1..Len(page.ret.df.rows) :
            /\ page.ret.df.rows[i].aqi \in 1..5
            /\ page.ret.df.rows[i].level = LevelOfAqi[page.ret.df.rows[i].aqi]

\* C4: persisting a plan returns an identifier, and retrieving the plan by
\* that identifier yields the activities and the recommendations persisted,
\* whatever was persisted before.
C4_RoundTrip ==
    st_last.op = "save" =>
        /\ ~st_last.ret.none
        /\ load_plan_by_id(plans, st_last.ret.id).found
        /\ load_plan_by_id(plans, st_last.ret.id).activities = st_last.activities
        /\ load_plan_by_id(plans, st_last.ret.id).plan = st_last.plan

\* What the store does keep of C4: the row is stored under the id the table
\* assigns, and load_plan_by_id with that id yields the activities persisted,
\* and the recommendations unless every activity reads as a number.
StoredUnderAssignedId ==
    st_last.op = "save" =>
        /\ load_plan_by_id(plans, st_last.id).found
        /\ load_plan_by_id(plans, st_last.id).activities = st_last.activities
        /\ (\E i \in 1..Len(st_last.activities) : ~IsNumericText(st_last.activities[i]))
              => load_plan_by_id(plans, st_last.id).plan = st_last.plan

\* C5: in a request in which get_aqi_data returns an error, recommend_times
\* is not run, no plan is persisted, no plan or save button is rendered, and
\* the error message is what is shown.
C5_FailedFetchAborts ==
    (page.called /\ page.fetch_raised = None /\ page.ret.error # None) =>
        /\ ~page.recommend_ran
        /\ page.plan = <<>>
        /\ ~page.save_button
        /\ page.rows_added = 0
        /\ page.shown = page.ret.error
        /\ page.raised = None

C5_Witness ==
    /\ page.called
    /\ page.executed
    /\ page.ret.error = FetchFailedMsg
    /\ page.shown = FetchFailedMsg
    /\ page.aqi_calls = 1

\* C6: a geocoding call that returns no match makes the fetch fail with
\* "City not found. Try adding a country code." without a forecast call, and
\* a forecast call is made only after a geocoding call that returned at least
\* one result.
C6_NotFoundBeforeForecast ==
    /\ (page.geo_calls = 1 /\ page.geo.kind = "list" /\ page.geo.items = <<>>) =>
          /\ page.ret.error = CityNotFoundMsg
          /\ page.shown = CityNotFoundMsg
          /\ page.aqi_calls = 0
    /\ page.aqi_calls >= 1 =>
          /\ page.geo_calls = 1
          /\ page.geo.kind = "list"
          /\ Len(page.geo.items) >= 1

C6_Witness ==
    /\ page.geo_calls = 1
    /\ page.geo.kind = "list"
    /\ page.geo.items = <<>>
    /\ page.shown = CityNotFoundMsg

\* The last run of get_aqi_data's body for the request's key returned less
\* than ttl seconds before the request.
Fresh(p) == p.prior.present /\ p.time - p.prior.at < TTL

\* C7: a call of get_aqi_data made less than 30 minutes after the body last
\* ran and returned a forecast for the same (place, country) returns that
\* forecast without a network call; with no such run within 30 minutes, also
\* when another key has one, the body runs again and calls the network.
C7_CacheWindow ==
    page.called =>
        /\ (Fresh(page) /\ page.prior.value.error = None) =>
              /\ ~page.executed
              /\ page.ret = page.prior.value
              /\ page.geo_calls = 0
              /\ page.aqi_calls = 0
        /\ ~Fresh(page) =>
              /\ page.executed
              /\ secrets => page.geo_calls = 1

C7_Witness ==
    /\ page.called
    /\ Fresh(page)
    /\ page.time > page.prior.at
    /\ page.prior.value.error = None
    /\ page.ret = page.prior.value
    /\ ~page.executed
    /\ \E k \in Keys : k # page.key /\ history[k].present /\ history[k].value # page.ret

\* C8: a "Get Best Times" request whose activities text holds no non-blank
\* line is rejected with an error: get_aqi_data is not called, nothing is
\* recommended and nothing is persisted.
C8_EmptyInputRejected ==
    (page.clicked = "get" /\ \A i \in 1..Len(activities_input) : activities_input[i] \in Whitespace) =>
        /\ page.shown = EmptyInputMsg
        /\ ~page.called
        /\ page.geo_calls = 0
        /\ page.aqi_calls = 0
        /\ ~page.recommend_ran
        /\ page.rows_added = 0

C8_Witness ==
    /\ page.clicked = "get"
    /\ activities_input # <<>>
    /\ \A i \in 1..Len(activities_input) : activities_input[i] \in Whitespace
    /\ page.shown = EmptyInputMsg
    /\ ~page.called

\* C9: the script run that the click on "Save This Plan to Database"
\* triggers executes save_plan with the request's city, country, activities
\* and plan, so that a new row for it is in the table afterwards.
C9_SaveClickPersists ==
    page.clicked = "save" =>
        /\ page.rows_added = 1
        /\ plans # <<>>
        /\ plans[Len(plans)].city = city
        /\ plans[Len(plans)].activities = json_dumps(activities(activities_input))

\* C10: a call of get_aqi_data made less than 30 minutes after the body last
\* ran and returned an error result for the same key returns that error
\* result without a network call; a call that raises for the missing API key
\* is not stored, so every call without the key runs the body and raises.
C10_ErrorsMemoized ==
    page.called =>
        /\ (Fresh(page) /\ page.prior.value.error # None) =>
              /\ ~page.executed
              /\ page.ret = page.prior.value
              /\ page.shown = page.prior.value.error
              /\ page.geo_calls = 0
              /\ page.aqi_calls = 0
        /\ ~secrets =>
              /\ page.executed
              /\ page.fetch_raised = "KeyError"
              /\ ~history[page.key].present

C10_Witness ==
    /\ page.called
    /\ Fresh(page)
    /\ page.time > page.prior.at
    /\ page.prior.value.error = GeocodeFailedMsg
    /\ page.shown = GeocodeFailedMsg
    /\ ~page.executed

====
